---- MODULE Spec2Model ----
(***************************************************************************)
(* bobtester: Bound, Condition (condition.py), get_sub_frames              *)
(* (manipulate.py) and BackTester.backtest / _get_outcome / BackTestResult *)
(* (backtest.py).                                                          *)
(*                                                                         *)
(* Numbers.  Prices are integers.  A price factor is an integer number of  *)
(* hundredths (10 stands for 0.1), so open_price * (1 - factor) is held    *)
(* exactly as open_price * (100 - factor), in hundredths of the price      *)
(* unit; a price compared with a bound edge is multiplied by 100 first.    *)
(* The rounding of the source's binary floating point is not modelled.     *)
(*                                                                         *)
(* Python's None is the empty tuple, a present number v is <<v>>.          *)
(***************************************************************************)
EXTENDS Integers, Sequences, FiniteSets, TLC

VARIABLES
    cond,         \* the Condition object (strategy_conditions)
    status,       \* <<price, outcome>> of the caller's last return_current_status call
                  \* since the Condition's bounds were last initialised; else None
    series,       \* BackTester's stored frame of the asset (self.btc / self.eth)
    pc,           \* "idle" | "loop" | "done" | "error"
    frame,        \* crypto_dataframe: the frame the run iterates over
    i,            \* the loop index of enumerate(sub_frames)
    trimmed_edf,  \* the lookback of the last iteration, start_position's argument
    df,           \* the evaluation window of the last iteration
    entered,      \* start_position's return values, in call order
    status_calls, \* return_current_status calls made by the last iteration
    records,      \* outcome_dataframe
    result,       \* the BackTestResult returned: <<>> until the run is done
    frame_is_series, \* crypto_dataframe is the stored frame itself, not a filtered copy
    series_outcome,  \* the 'outcome' column of the stored frame: None while it has none
    template,     \* the Condition as the caller passed it to backtest: None before a call
    previous,     \* what the caller kept of the call before this one: None if there is none
    stats         \* what return_outcome_stats returned on `result`: None until it is called

\* What only a caller's session of several calls changes.
session == <<template, previous, stats>>

vars == <<cond, status, series, pc, frame, i, trimmed_edf, df, entered,
          status_calls, records, result, frame_is_series, series_outcome,
          template, previous, stats>>

\* ------------------------------------------------------------------ bounds

MaxBars == 2
MaxPeriod == 2

\* ------------------------------------------------------------ Python values

None == <<>>
Some(v) == <<v>>
Val(x) == x[1]

Max(a, b) == IF a >= b THEN a ELSE b
Min(a, b) == IF a <= b THEN a ELSE b

\* Python truthiness of an optional number: None and 0 are false.
Truthy(x) == x # None /\ Val(x) # 0

\* seq[start:stop] of pandas .iloc / Python slicing, 0-based, negative = from the end.
SliceIndex(n, k) == IF k < 0 THEN Max(0, n + k) ELSE Min(k, n)
Iloc(s, start, stop) ==
    LET a == SliceIndex(Len(s), start)
        b == SliceIndex(Len(s), stop)
    IN IF a >= b THEN <<>> ELSE SubSeq(s, a + 1, b)

\* ----------------------------------------------------------------- enums

PROFITABLE == "PROFITABLE"
UNPROFITABLE == "UNPROFITABLE"
LIQUIDATED == "LIQUIDATED"
SKIPPED == "SKIPPED"
Outcomes == {PROFITABLE, UNPROFITABLE, LIQUIDATED, SKIPPED}

LONG_CONDOR == "LONG_CONDOR"
BULL_PUT_SPREAD == "BULL_PUT_SPREAD"
BEAR_CALL_SPREAD == "BEAR_CALL_SPREAD"
\* The attribute `strategy` does not exist on the object.
NoStrategy == "no attribute"

\* ----------------------------------------------------------------- Bound

Bound(lower, upper, inside) == [lower |-> lower, upper |-> upper, inside |-> inside]

\* Mutant: an inside bound leaves its edges out, an outside bound takes them in.
contains_EdgesSwapped(b, value) ==
    IF b.inside
    THEN IF b.lower # None /\ b.upper # None
         THEN Val(b.lower) < value /\ value < Val(b.upper)
         ELSE IF b.lower # None THEN Val(b.lower) < value
         ELSE IF b.upper # None THEN value < Val(b.upper)
         ELSE FALSE
    ELSE IF b.lower # None /\ b.upper # None
         THEN value <= Val(b.lower) \/ value >= Val(b.upper)
         ELSE IF b.lower # None THEN value <= Val(b.lower)
         ELSE IF b.upper # None THEN value >= Val(b.upper)
         ELSE FALSE

\* value is in hundredths, like the edges.
contains(b, value) ==
    IF b.inside
    THEN IF b.lower # None /\ b.upper # None
         THEN Val(b.lower) <= value /\ value <= Val(b.upper)
         ELSE IF b.lower # None THEN Val(b.lower) <= value
         ELSE IF b.upper # None THEN value <= Val(b.upper)
         ELSE FALSE
    ELSE IF b.lower # None /\ b.upper # None
         THEN value < Val(b.lower) \/ value > Val(b.upper)
         ELSE IF b.lower # None THEN value < Val(b.lower)
         ELSE IF b.upper # None THEN value > Val(b.upper)
         ELSE FALSE

\* -------------------------------------------------------------- Condition

\* open_price * (1 - factor), in hundredths
BelowEdge(open_price, factor) ==
    IF factor # None THEN Some(open_price * (100 - Val(factor))) ELSE None
\* open_price * (1 + factor), in hundredths
AboveEdge(open_price, factor) ==
    IF factor # None THEN Some(open_price * (100 + Val(factor))) ELSE None

initialize_bounds(c) ==
    [c EXCEPT
       !.profit_bound =
           Bound(BelowEdge(c.open_price, c.profit_below_price_factor),
                 AboveEdge(c.open_price, c.profit_above_price_factor), TRUE),
       !.liquidate_bound =
           Bound(BelowEdge(c.open_price, c.liquidate_below_price_factor),
                 AboveEdge(c.open_price, c.liquidate_above_price_factor), FALSE)]

\* No branch assigns when both edges are falsy: the attribute keeps what it had.
determine_strategy(c) ==
    IF Truthy(c.profit_bound.upper) /\ Truthy(c.profit_bound.lower)
    THEN [c EXCEPT !.strategy = LONG_CONDOR]
    ELSE IF Truthy(c.profit_bound.upper) /\ ~Truthy(c.profit_bound.lower)
    THEN [c EXCEPT !.strategy = BULL_PUT_SPREAD]
    ELSE IF Truthy(c.profit_bound.lower) /\ ~Truthy(c.profit_bound.upper)
    THEN [c EXCEPT !.strategy = BEAR_CALL_SPREAD]
    ELSE c

\* Condition.__init__ run on the object `self` (NewObject for a construction).
Condition_init(self, open_price, period_days, pb, pa, lb, la) ==
    determine_strategy(initialize_bounds(
        [self EXCEPT !.open_price = open_price,
                     !.profit_below_price_factor = pb,
                     !.profit_above_price_factor = pa,
                     !.liquidate_below_price_factor = lb,
                     !.liquidate_above_price_factor = la,
                     !.period_days = period_days]))

NewObject ==
    [open_price |-> 0, period_days |-> 0,
     profit_below_price_factor |-> None, profit_above_price_factor |-> None,
     liquidate_below_price_factor |-> None, liquidate_above_price_factor |-> None,
     profit_bound |-> Bound(None, None, TRUE),
     liquidate_bound |-> Bound(None, None, FALSE),
     strategy |-> NoStrategy]

Condition(open_price, period_days, pb, pa, lb, la) ==
    Condition_init(NewObject, open_price, period_days, pb, pa, lb, la)

\* Mutant: only the open price is replaced, the bounds stay where they were.
update_open_price_KeepsBounds(c, new_open_price) ==
    [c EXCEPT !.open_price = new_open_price]

update_open_price(c, new_open_price) ==
    Condition_init(c, new_open_price, c.period_days,
                   c.profit_below_price_factor, c.profit_above_price_factor,
                   c.liquidate_below_price_factor, c.liquidate_above_price_factor)

\* Mutant: the profit bound is asked first.
return_current_status_ProfitFirst(c, current_price) ==
    IF contains(c.profit_bound, current_price * 100) THEN PROFITABLE
    ELSE IF contains(c.liquidate_bound, current_price * 100) THEN LIQUIDATED
    ELSE UNPROFITABLE

return_current_status(c, current_price) ==
    IF contains(c.liquidate_bound, current_price * 100) THEN LIQUIDATED
    ELSE IF contains(c.profit_bound, current_price * 100) THEN PROFITABLE
    ELSE UNPROFITABLE

\* ------------------------------------------------------------ manipulate.py

get_sub_frames(d, period_days) == [k \in 1..Len(d) |-> Iloc(d, 0, k)]

\* ------------------------------------------------------------- backtest.py

RECURSIVE ScanFrom(_, _, _)
\* The for loop of _get_outcome from row k on, then the return after it.
ScanFrom(period, condition, k) ==
    IF k > Len(period)
    THEN <<return_current_status(condition, period[Len(period)].close), 0>>
    ELSE LET row == period[k]
             low_liquidated == return_current_status(condition, row.low) = LIQUIDATED
             high_liquidated == return_current_status(condition, row.high) = LIQUIDATED
         IN IF low_liquidated \/ high_liquidated
            THEN <<LIQUIDATED, IF low_liquidated THEN row.low ELSE row.high>>
            ELSE ScanFrom(period, condition, k + 1)

RECURSIVE ScanBack(_, _, _)
\* Mutant: the rows are scanned from the last to the first.
ScanBack(period, condition, k) ==
    IF k < 1
    THEN <<return_current_status(condition, period[Len(period)].close), 0>>
    ELSE LET row == period[k]
             low_liquidated == return_current_status(condition, row.low) = LIQUIDATED
             high_liquidated == return_current_status(condition, row.high) = LIQUIDATED
         IN IF low_liquidated \/ high_liquidated
            THEN <<LIQUIDATED, IF low_liquidated THEN row.low ELSE row.high>>
            ELSE ScanBack(period, condition, k - 1)

get_outcome_Backwards(period, condition) == ScanBack(period, condition, Len(period))

\* Mutant: the high is reported whenever it triggers.
get_outcome_HighFirst(period, condition) ==
    LET r == ScanFrom(period, condition, 1)
        hit == {k \in 1..Len(period) :
                   /\ \/ return_current_status(condition, period[k].low) = LIQUIDATED
                      \/ return_current_status(condition, period[k].high) = LIQUIDATED
                   /\ \A m \in 1..(k - 1) :
                         /\ return_current_status(condition, period[m].low) # LIQUIDATED
                         /\ return_current_status(condition, period[m].high) # LIQUIDATED}
    IN IF r[1] = LIQUIDATED
       THEN LET row == period[CHOOSE k \in hit : TRUE]
            IN <<LIQUIDATED,
                 IF return_current_status(condition, row.high) = LIQUIDATED
                 THEN row.high ELSE row.low>>
       ELSE r

\* Mutant: without a liquidation the first row's close is classified.
get_outcome_FirstClose(period, condition) ==
    LET r == ScanFrom(period, condition, 1)
    IN IF r[1] = LIQUIDATED THEN r
       ELSE <<return_current_status(condition, period[1].close), 0>>

get_outcome(period, condition) == ScanFrom(period, condition, 1)

RECURSIVE CallsFrom(_, _, _)
\* How many return_current_status calls that loop and return make.
CallsFrom(period, condition, k) ==
    IF k > Len(period) THEN 1
    ELSE IF return_current_status(condition, period[k].low) = LIQUIDATED
            \/ return_current_status(condition, period[k].high) = LIQUIDATED
         THEN 2
         ELSE 2 + CallsFrom(period, condition, k + 1)

RECURSIVE ApplyOutcomes(_, _, _, _)
\* The iterrows loop of prepare_data from outcome row k on.
ApplyOutcomes(crypto_data, column, outcomes, k) ==
    IF k > Len(outcomes) THEN column
    ELSE LET row == outcomes[k]
             mask == [n \in 1..Len(crypto_data) |->
                         crypto_data[n].date >= row.start_date
                         /\ crypto_data[n].date <= row.end_date]
         IN ApplyOutcomes(crypto_data,
                          [n \in 1..Len(crypto_data) |->
                              IF mask[n] THEN row.outcome ELSE column[n]],
                          outcomes, k + 1)

RECURSIVE ApplyToUnlabelled(_, _, _, _)
\* Mutant loop: a row labels only the bars no earlier row has labelled.
ApplyToUnlabelled(crypto_data, column, outcomes, k) ==
    IF k > Len(outcomes) THEN column
    ELSE LET row == outcomes[k]
             mask == [n \in 1..Len(crypto_data) |->
                         crypto_data[n].date >= row.start_date
                         /\ crypto_data[n].date <= row.end_date
                         /\ column[n] = SKIPPED]
         IN ApplyToUnlabelled(crypto_data,
                              [n \in 1..Len(crypto_data) |->
                                  IF mask[n] THEN row.outcome ELSE column[n]],
                              outcomes, k + 1)

RECURSIVE ApplyAfterStart(_, _, _, _)
\* Mutant loop: the bar of a row's start_date is left out of the row's mask.
ApplyAfterStart(crypto_data, column, outcomes, k) ==
    IF k > Len(outcomes) THEN column
    ELSE LET row == outcomes[k]
             mask == [n \in 1..Len(crypto_data) |->
                         crypto_data[n].date > row.start_date
                         /\ crypto_data[n].date <= row.end_date]
         IN ApplyAfterStart(crypto_data,
                            [n \in 1..Len(crypto_data) |->
                                IF mask[n] THEN row.outcome ELSE column[n]],
                            outcomes, k + 1)

\* Mutant: a row labels the bars after its start_date only.
prepare_data_AfterStart(outcomes, crypto_data) ==
    ApplyAfterStart(crypto_data, [n \in 1..Len(crypto_data) |-> SKIPPED], outcomes, 1)

\* Mutant: the first row that labels a bar wins.
prepare_data_FirstWins(outcomes, crypto_data) ==
    ApplyToUnlabelled(crypto_data, [n \in 1..Len(crypto_data) |-> SKIPPED], outcomes, 1)

\* The 'outcome' column prepare_data leaves on crypto_data.
prepare_data(outcomes, crypto_data) ==
    ApplyOutcomes(crypto_data, [n \in 1..Len(crypto_data) |-> SKIPPED], outcomes, 1)

BackTestResult(outcomes, crypto_data) ==
    [outcomes |-> outcomes, crypto_data |-> crypto_data,
     outcome |-> prepare_data(outcomes, crypto_data)]

\* (count / total) * 100 held exactly as the fraction num/den; the integer 0 is 0/1.
Percent(count, total) == [num |-> count * 100, den |-> total]
Zero == [num |-> 0, den |-> 1]

\* filtered_data[filtered_data['outcome'] == name].shape[0]
CountOf(data, name) == Len(SelectSeq(data, LAMBDA row : row.outcome = name))

\* Mutant: the Skipped rows are not filtered out.
return_outcome_stats_CountsSkipped(outcomes) ==
    LET filtered_data == outcomes
        total_positions == Len(filtered_data)
        positions == total_positions > 0
    IN [total_positions |-> total_positions,
        percent_profitable |->
            IF positions THEN Percent(CountOf(filtered_data, PROFITABLE), total_positions)
            ELSE Zero,
        percent_unprofitable |->
            IF positions THEN Percent(CountOf(filtered_data, UNPROFITABLE), total_positions)
            ELSE Zero,
        percent_liquidated |->
            IF positions THEN Percent(CountOf(filtered_data, LIQUIDATED), total_positions)
            ELSE Zero]

\* Mutant: the percentages are computed whatever total_positions is.
return_outcome_stats_Unguarded(outcomes) ==
    LET filtered_data == SelectSeq(outcomes, LAMBDA row : row.outcome # SKIPPED)
        total_positions == Len(filtered_data)
    IN [total_positions |-> total_positions,
        percent_profitable |->
            Percent(CountOf(filtered_data, PROFITABLE), total_positions),
        percent_unprofitable |->
            Percent(CountOf(filtered_data, UNPROFITABLE), total_positions),
        percent_liquidated |->
            Percent(CountOf(filtered_data, LIQUIDATED), total_positions)]

return_outcome_stats(outcomes) ==
    LET filtered_data == SelectSeq(outcomes, LAMBDA row : row.outcome # SKIPPED)
        total_positions == Len(filtered_data)
        positions == total_positions > 0
    IN [total_positions |-> total_positions,
        percent_profitable |->
            IF positions THEN Percent(CountOf(filtered_data, PROFITABLE), total_positions)
            ELSE Zero,
        percent_unprofitable |->
            IF positions THEN Percent(CountOf(filtered_data, UNPROFITABLE), total_positions)
            ELSE Zero,
        percent_liquidated |->
            IF positions THEN Percent(CountOf(filtered_data, LIQUIDATED), total_positions)
            ELSE Zero]

\* ----------------------------------------------------------------- inputs

\* Daily bars: low <= open, close <= high.
BarLows == {7, 8}
BarHighs == {12, 13}
BarOpenClose == {<<10, 12>>, <<12, 10>>}
BarShapes ==
    {[open |-> oc[1], high |-> h, low |-> l, close |-> oc[2]] :
        oc \in BarOpenClose, h \in BarHighs, l \in BarLows}

\* Frames of n bars with dates 1..n: sorted by date, one row per date.
FramesOf(n) ==
    {[k \in 1..n |-> [date |-> k, open |-> f[k].open, high |-> f[k].high,
                      low |-> f[k].low, close |-> f[k].close]] :
        f \in [1..n -> BarShapes]}
Frames == UNION {FramesOf(n) : n \in 0..MaxBars}

OpenPrices == {0, 10}
Periods == 0..MaxPeriod
ProfitFactors == {None, Some(10)}
LiquidateFactors == {None, Some(20)}
StartDates == {None} \cup {Some(d) : d \in 1..(MaxBars + 1)}

\* ------------------------------------------------------------------- Spec

Init ==
    /\ \E op \in OpenPrices, p \in Periods, pb \in ProfitFactors, pa \in ProfitFactors,
          lb \in LiquidateFactors, la \in LiquidateFactors :
          cond = Condition(op, p, pb, pa, lb, la)
    /\ series \in Frames
    /\ status = None
    /\ pc = "idle"
    /\ frame = <<>>
    /\ i = 0
    /\ trimmed_edf = <<>>
    /\ df = <<>>
    /\ entered = <<>>
    /\ status_calls = 0
    /\ records = <<>>
    /\ result = None
    /\ frame_is_series = FALSE
    /\ series_outcome = None
    /\ template = None
    /\ previous = None
    /\ stats = None

\* backtest() up to the loop: lines 186-196.
Backtest(start_from) ==
    /\ pc = "idle"
    /\ pc' = "loop"
    /\ records' = <<>>
    /\ entered' = <<>>
    /\ i' = 0
    /\ IF start_from # None
       THEN /\ frame' = SelectSeq(series, LAMBDA row : row.date >= Val(start_from))
            /\ frame_is_series' = FALSE
       ELSE /\ frame' = series
            /\ frame_is_series' = TRUE
    /\ UNCHANGED <<cond, status, series, trimmed_edf, df, status_calls, result,
                   series_outcome>>

NewRow(w, outcome, liquidated_at_price) ==
    [start_date |-> w[1].date, end_date |-> w[Len(w)].date, outcome |-> outcome,
     open_price |-> w[1].open, close_price |-> w[Len(w)].close,
     liquidated_at_price |-> liquidated_at_price]

\* Mutant: the whole prefix is handed to start_position.
TrimmedEdf_Untrimmed(d, period_days, k) == get_sub_frames(d, period_days)[k + 1]

\* The lookback handed to start_position at index k of the frame d.
TrimmedEdf(d, period_days, k) ==
    LET edf == get_sub_frames(d, period_days)[k + 1]
    IN IF Len(edf) > period_days THEN Iloc(edf, 0, 0 - period_days) ELSE <<>>

\* Mutant: the window is the whole prefix.
Window_WholePrefix(d, period_days, k) == get_sub_frames(d, period_days)[k + 1]

\* The evaluation window at index k of the frame d.
Window(d, period_days, k) ==
    LET edf == get_sub_frames(d, period_days)[k + 1]
    IN Iloc(edf, Max(0, k - period_days + 1), k + 1)

\* df.iloc[0] of an empty window: IndexError, the run ends there.
WindowError ==
    /\ pc = "loop"
    /\ i < Len(frame)
    /\ Window(frame, cond.period_days, i) = <<>>
    /\ pc' = "error"
    /\ trimmed_edf' = TrimmedEdf(frame, cond.period_days, i)
    /\ df' = <<>>
    /\ UNCHANGED <<cond, status, series, frame, i, entered, status_calls, records,
                   result, frame_is_series, series_outcome>>

\* Mutant: the Condition is reopened before start_position is asked.
SkipWindow_Reopens ==
    /\ pc = "loop"
    /\ i < Len(frame)
    /\ Window(frame, cond.period_days, i) # <<>>
    /\ trimmed_edf' = TrimmedEdf(frame, cond.period_days, i)
    /\ df' = Window(frame, cond.period_days, i)
    /\ entered' = Append(entered, FALSE)
    /\ cond' = update_open_price(cond, df'[1].open)
    /\ status_calls' = 0
    /\ records' = Append(records, NewRow(df', SKIPPED, 0))
    /\ i' = i + 1
    /\ UNCHANGED <<status, series, pc, frame, result, frame_is_series,
                   series_outcome>>

\* One iteration of the loop in which start_position returns FALSE.
SkipWindow ==
    /\ pc = "loop"
    /\ i < Len(frame)
    /\ Window(frame, cond.period_days, i) # <<>>
    /\ trimmed_edf' = TrimmedEdf(frame, cond.period_days, i)
    /\ df' = Window(frame, cond.period_days, i)
    /\ entered' = Append(entered, FALSE)
    /\ status_calls' = 0
    /\ records' = Append(records, NewRow(df', SKIPPED, 0))
    /\ i' = i + 1
    /\ UNCHANGED <<cond, status, series, pc, frame, result, frame_is_series,
                   series_outcome>>

\* One iteration of the loop in which start_position returns TRUE.
EnterWindow ==
    /\ pc = "loop"
    /\ i < Len(frame)
    /\ Window(frame, cond.period_days, i) # <<>>
    /\ trimmed_edf' = TrimmedEdf(frame, cond.period_days, i)
    /\ df' = Window(frame, cond.period_days, i)
    /\ entered' = Append(entered, TRUE)
    /\ cond' = update_open_price(cond, df'[1].open)
    /\ status_calls' = CallsFrom(df', cond', 1)
    /\ LET r == get_outcome(df', cond')
       IN records' = Append(records, NewRow(df', r[1], r[2]))
    /\ i' = i + 1
    /\ status' = None
    /\ UNCHANGED <<series, pc, frame, result, frame_is_series, series_outcome>>

\* The loop is over: line 227 builds the BackTestResult, whose constructor labels
\* crypto_dataframe in place.
Return ==
    /\ pc = "loop"
    /\ i = Len(frame)
    /\ pc' = "done"
    /\ result' = Some(BackTestResult(records, frame))
    /\ series_outcome' = IF frame_is_series
                         THEN Some(prepare_data(records, frame))
                         ELSE series_outcome
    /\ UNCHANGED <<cond, status, series, frame, i, trimmed_edf, df, entered,
                   status_calls, records, frame_is_series>>

Next ==
    \/ (\E start_from \in StartDates : Backtest(start_from)) /\ UNCHANGED session
    \/ WindowError /\ UNCHANGED session
    \/ SkipWindow /\ UNCHANGED session
    \/ EnterWindow /\ UNCHANGED session
    \/ Return /\ UNCHANGED session

Spec == Init /\ [][Next]_vars

\* ------------------------------------------- a caller's session: two calls

\* The series of a session: bars whose low and high are the nearer ones.
SessionFrames ==
    {f \in Frames : \A k \in 1..Len(f) : f[k].low = 8 /\ f[k].high = 12}

InitSession ==
    /\ \E op \in OpenPrices, p \in Periods, pf \in ProfitFactors, lf \in LiquidateFactors :
          cond = Condition(op, p, pf, pf, lf, lf)
    /\ series \in SessionFrames
    /\ status = None
    /\ pc = "idle"
    /\ frame = <<>>
    /\ i = 0
    /\ trimmed_edf = <<>>
    /\ df = <<>>
    /\ entered = <<>>
    /\ status_calls = 0
    /\ records = <<>>
    /\ result = None
    /\ frame_is_series = FALSE
    /\ series_outcome = None
    /\ template = None
    /\ previous = None
    /\ stats = None

\* The caller calls backtest(name, strategy_conditions, asset, start_position,
\* start_from) with its Condition object as strategy_conditions.
CallBacktest(start_from) ==
    /\ Backtest(start_from)
    /\ template' = cond
    /\ UNCHANGED <<previous, stats>>

\* The caller asks the BackTestResult it was returned for its statistics.
ReturnOutcomeStats ==
    /\ pc = "done"
    /\ stats = None
    /\ stats' = Some(return_outcome_stats(Val(result).outcomes))
    /\ UNCHANGED <<cond, status, series, pc, frame, i, trimmed_edf, df, entered,
                   status_calls, records, result, frame_is_series, series_outcome,
                   template, previous>>

\* The caller keeps the BackTestResult and is about to call backtest once more,
\* with the same BackTester, asset and Condition object.
KeepResult ==
    /\ pc = "done"
    /\ previous = None
    /\ previous' = Some([result |-> Val(result), is_series |-> frame_is_series,
                         entered |-> entered, template |-> template])
    /\ pc' = "idle"
    /\ stats' = None
    /\ UNCHANGED <<cond, status, series, frame, i, trimmed_edf, df, entered,
                   status_calls, records, result, frame_is_series, series_outcome,
                   template>>

NextSession ==
    \/ \E start_from \in StartDates : CallBacktest(start_from)
    \/ WindowError /\ UNCHANGED session
    \/ SkipWindow /\ UNCHANGED session
    \/ EnterWindow /\ UNCHANGED session
    \/ Return /\ UNCHANGED session
    \/ ReturnOutcomeStats
    \/ KeepResult

SpecSession == InitSession /\ [][NextSession]_vars

\* ------------------------------- a BackTestResult built from any records

\* Outcome rows over the dates of a series, start_date <= end_date.
OutcomeRows ==
    {row \in [start_date : 1..MaxBars, end_date : 1..MaxBars, outcome : Outcomes,
              open_price : {10}, close_price : {12}, liquidated_at_price : {0}] :
        row.start_date <= row.end_date}
OutcomeFrames == UNION {[1..n -> OutcomeRows] : n \in 0..MaxBars}

\* Series of n bars with dates 1..n, every bar of one shape.
ResultFrames ==
    {[k \in 1..n |-> [date |-> k, open |-> 10, high |-> 12, low |-> 8, close |-> 12]] :
        n \in 0..MaxBars}

InitResult ==
    /\ cond = Condition(10, 1, Some(10), Some(10), Some(20), Some(20))
    /\ series \in ResultFrames
    /\ records \in OutcomeFrames
    /\ status = None
    /\ pc = "idle"
    /\ frame = <<>>
    /\ i = 0
    /\ trimmed_edf = <<>>
    /\ df = <<>>
    /\ entered = <<>>
    /\ status_calls = 0
    /\ result = None
    /\ frame_is_series = FALSE
    /\ series_outcome = None
    /\ template = None
    /\ previous = None
    /\ stats = None

\* BackTestResult(name, outcomes, crypto_data) on the rows and the series in hand:
\* the constructor labels crypto_data in place.
Construct ==
    /\ pc = "idle"
    /\ pc' = "done"
    /\ frame' = series
    /\ frame_is_series' = TRUE
    /\ result' = Some(BackTestResult(records, series))
    /\ series_outcome' = Some(prepare_data(records, series))
    /\ UNCHANGED <<cond, status, series, i, trimmed_edf, df, entered, status_calls,
                   records, template, previous, stats>>

NextResult ==
    \/ Construct
    \/ ReturnOutcomeStats

SpecResult == InitResult /\ [][NextResult]_vars

\* ---------------------------------------------------- the Condition alone

CondOpenPrices == {0, 10000}
CondPrices == {0, 7999, 8000, 8999, 9000, 10000, 11000, 11001, 12000, 12001}
CondFactors == {None, Some(10), Some(20), Some(100)}

InitCondition ==
    /\ \E op \in CondOpenPrices, p \in Periods, pb \in CondFactors, pa \in CondFactors,
          lb \in CondFactors, la \in CondFactors :
          cond = Condition(op, p, pb, pa, lb, la)
    /\ series = <<>>
    /\ status = None
    /\ pc = "idle"
    /\ frame = <<>>
    /\ i = 0
    /\ trimmed_edf = <<>>
    /\ df = <<>>
    /\ entered = <<>>
    /\ status_calls = 0
    /\ records = <<>>
    /\ result = None
    /\ frame_is_series = FALSE
    /\ series_outcome = None
    /\ template = None
    /\ previous = None
    /\ stats = None

\* The caller asks the Condition for the status of a price.
ReturnCurrentStatus(current_price) ==
    /\ status' = <<current_price, return_current_status(cond, current_price)>>
    /\ UNCHANGED <<cond, series, pc, frame, i, trimmed_edf, df, entered, status_calls,
                   records, result, frame_is_series, series_outcome>>

\* The caller reopens the Condition at a new open price.
UpdateOpenPrice(new_open_price) ==
    /\ cond' = update_open_price(cond, new_open_price)
    /\ status' = None
    /\ UNCHANGED <<series, pc, frame, i, trimmed_edf, df, entered, status_calls,
                   records, result, frame_is_series, series_outcome>>

NextCondition ==
    \/ (\E current_price \in CondPrices : ReturnCurrentStatus(current_price))
           /\ UNCHANGED session
    \/ (\E new_open_price \in CondOpenPrices : UpdateOpenPrice(new_open_price))
           /\ UNCHANGED session

SpecCondition == InitCondition /\ [][NextCondition]_vars

\* ------------------------------------------------- records read off the frame

\* The bars record k (counted from 1) is about: frame[max(0, i-period_days+1) .. i], i = k-1.
BarsOf(k) == SubSeq(frame, Max(1, k - cond.period_days + 1), k)

\* The Condition as it is once reopened at the open price of record k's window.
ReopenedFor(k) == update_open_price(cond, BarsOf(k)[1].open)

\* The bar's low or high classifies as Liquidated.
Triggers(c, bar) ==
    \/ return_current_status(c, bar.low) = LIQUIDATED
    \/ return_current_status(c, bar.high) = LIQUIDATED

\* Bar j of w is the first one that triggers.
FirstTrigger(c, w, j) ==
    /\ Triggers(c, w[j])
    /\ \A m \in 1..(j - 1) : ~Triggers(c, w[m])

\* C1: in an entered window the first bar, in date order, whose low or high
\* classifies as Liquidated decides the record: its outcome is Liquidated and its
\* liquidated_at_price is that bar's low or high, whatever the later bars hold.
C1_FirstLiquidationDecides ==
    \A k \in 1..Len(records) :
        entered[k] =>
            \A j \in 1..Len(BarsOf(k)) :
                FirstTrigger(ReopenedFor(k), BarsOf(k), j) =>
                    /\ records[k].outcome = LIQUIDATED
                    /\ records[k].liquidated_at_price
                           \in {BarsOf(k)[j].low, BarsOf(k)[j].high}

\* An entered two-bar window whose bars both trigger, the record carrying a price of
\* the first bar that the second bar does not have.
C1_Witness ==
    \E k \in 1..Len(records) :
        /\ entered[k]
        /\ Len(BarsOf(k)) = 2
        /\ Triggers(ReopenedFor(k), BarsOf(k)[1])
        /\ Triggers(ReopenedFor(k), BarsOf(k)[2])
        /\ records[k].outcome = LIQUIDATED
        /\ records[k].liquidated_at_price \notin {BarsOf(k)[2].low, BarsOf(k)[2].high}

\* C2: in the triggering bar liquidated_at_price is the low whenever the low
\* classifies as Liquidated (also when the high does too), and is the high only
\* when the high classifies as Liquidated and the low does not.
C2_LowBeforeHigh ==
    \A k \in 1..Len(records) :
        entered[k] =>
            \A j \in 1..Len(BarsOf(k)) :
                FirstTrigger(ReopenedFor(k), BarsOf(k), j) =>
                    LET c == ReopenedFor(k)
                        bar == BarsOf(k)[j]
                        price == records[k].liquidated_at_price
                        low_liquidated == return_current_status(c, bar.low) = LIQUIDATED
                        high_liquidated == return_current_status(c, bar.high) = LIQUIDATED
                    IN /\ low_liquidated => price = bar.low
                       /\ ~low_liquidated => price = bar.high
                       /\ (price = bar.high /\ bar.high # bar.low) =>
                              (high_liquidated /\ ~low_liquidated)

\* A record whose triggering bar has both its low and its high in the liquidation zone.
C2_Witness ==
    \E k \in 1..Len(records) :
        /\ entered[k]
        /\ \E j \in 1..Len(BarsOf(k)) :
              /\ FirstTrigger(ReopenedFor(k), BarsOf(k), j)
              /\ return_current_status(ReopenedFor(k), BarsOf(k)[j].low) = LIQUIDATED
              /\ return_current_status(ReopenedFor(k), BarsOf(k)[j].high) = LIQUIDATED
              /\ BarsOf(k)[j].low # BarsOf(k)[j].high
              /\ records[k].liquidated_at_price = BarsOf(k)[j].low

SkippedStep ==
    /\ Len(entered') = Len(entered) + 1
    /\ ~entered'[Len(entered')]

\* C4: an iteration whose entry predicate is false appends a record with outcome
\* Skipped and liquidated_at_price 0, leaves the Condition as it was and makes no
\* return_current_status call; so after it every window that was not entered has
\* such a record, and a run of false answers only has such records.
C4_SkippedLeavesConditionAlone ==
    [][SkippedStep =>
          /\ Len(records') = Len(records) + 1
          /\ records'[Len(records')].outcome = SKIPPED
          /\ records'[Len(records')].liquidated_at_price = 0
          /\ cond' = cond
          /\ status_calls' = 0
          /\ \A k \in 1..Len(records') :
                ~entered'[k] => /\ records'[k].outcome = SKIPPED
                                /\ records'[k].liquidated_at_price = 0]_vars

\* A finished run of two windows, none entered, each of which would have been
\* liquidated at an open price the Condition does not carry.
C4_Witness ==
    /\ pc = "done"
    /\ Len(records) = 2
    /\ \A k \in 1..2 :
          /\ ~entered[k]
          /\ records[k].outcome = SKIPPED
          /\ records[k].liquidated_at_price = 0
          /\ cond.open_price # BarsOf(k)[1].open
          /\ Triggers(ReopenedFor(k), BarsOf(k)[1])

\* C5: the lookback handed to the entry predicate at index i is the first
\* max(0, i+1-period_days) bars of the frame (none while the prefix has at most
\* period_days bars); every bar of it is dated before every bar of the evaluation
\* window, and lookback followed by window is the prefix of length i+1.
C5_LookbackExcludesWindow ==
    Len(entered) >= 1 =>
        LET n == Len(entered)
        IN /\ trimmed_edf = SubSeq(frame, 1, Max(0, n - cond.period_days))
           /\ n <= cond.period_days => trimmed_edf = <<>>
           /\ trimmed_edf \o df = SubSeq(frame, 1, n)
           /\ \A a \in 1..Len(trimmed_edf), b \in 1..Len(df) :
                 /\ trimmed_edf[a].date < df[b].date
                 /\ trimmed_edf[a] # df[b]

\* The predicate has been called with a lookback that is not empty.
C5_Witness ==
    /\ Len(entered) = 2
    /\ Len(trimmed_edf) = 1
    /\ Len(df) = 1
    /\ trimmed_edf[1] = frame[1]
    /\ df[1] = frame[2]

C7_LiquidationBeforeProfit ==
    status # None =>
        LET value == status[1] * 100
            outcome == status[2]
            in_liquidation == contains(cond.liquidate_bound, value)
            in_profit == contains(cond.profit_bound, value)
        IN /\ outcome \in Outcomes \ {SKIPPED}
           /\ in_liquidation => outcome = LIQUIDATED
           /\ (~in_liquidation /\ in_profit) => outcome = PROFITABLE
           /\ (~in_liquidation /\ ~in_profit) => outcome = UNPROFITABLE

\* A price inside the profit range and inside the liquidation zone was classified.
C7_Witness ==
    /\ status # None
    /\ contains(cond.liquidate_bound, status[1] * 100)
    /\ contains(cond.profit_bound, status[1] * 100)
    /\ status[2] = LIQUIDATED

\* The liquidation zone of open price P and factors lb, la: strictly below
\* P*(1-lb) or strictly above P*(1+la), a side without factor being unbounded.
InLiquidationZone(c, price) ==
    \/ /\ c.liquidate_below_price_factor # None
       /\ price * 100 < c.open_price * (100 - Val(c.liquidate_below_price_factor))
    \/ /\ c.liquidate_above_price_factor # None
       /\ price * 100 > c.open_price * (100 + Val(c.liquidate_above_price_factor))

\* The profit range [P*(1-pb), P*(1+pa)], edges included, a side without factor
\* being unbounded.
InProfitRange(c, price) ==
    /\ \/ c.profit_below_price_factor = None
       \/ c.open_price * (100 - Val(c.profit_below_price_factor)) <= price * 100
    /\ \/ c.profit_above_price_factor = None
       \/ price * 100 <= c.open_price * (100 + Val(c.profit_above_price_factor))

HasProfitFactor(c) ==
    c.profit_below_price_factor # None \/ c.profit_above_price_factor # None

\* Open price 100.00 with profit factors 0.1 and liquidation factors 0.2 (prices in cents).
IsExampleCondor(c) ==
    /\ c.open_price = 10000
    /\ c.profit_below_price_factor = Some(10)
    /\ c.profit_above_price_factor = Some(10)
    /\ c.liquidate_below_price_factor = Some(20)
    /\ c.liquidate_above_price_factor = Some(20)

ExamplePrices == {10000, 9000, 8999, 8000, 7999}
ExampleOutcome(price) ==
    CASE price = 10000 -> PROFITABLE
      [] price = 9000 -> PROFITABLE
      [] price = 8999 -> UNPROFITABLE
      [] price = 8000 -> UNPROFITABLE
      [] price = 7999 -> LIQUIDATED

C9_StrategyFromFactors ==
    /\ (cond.profit_below_price_factor # None /\ cond.profit_above_price_factor # None)
           => cond.strategy = LONG_CONDOR
    /\ (cond.profit_below_price_factor = None /\ cond.profit_above_price_factor # None)
           => cond.strategy = BULL_PUT_SPREAD
    /\ (cond.profit_below_price_factor # None /\ cond.profit_above_price_factor = None)
           => cond.strategy = BEAR_CALL_SPREAD

\* A configuration the construction has to refuse.
InvalidConfiguration(c) == ~HasProfitFactor(c) \/ c.period_days <= 0

\* C10: a Condition without profit factor or with period_days <= 0 is refused when
\* it is constructed, so none is ever iterated over by the loop of a backtest.
C10_InvalidConfigurationNeverRuns ==
    (pc = "loop" /\ i < Len(frame)) => ~InvalidConfiguration(cond)

\* C11: a run leaves the caller's Condition as it was passed: once the run is
\* over, its open_price, profit bound and liquidation bound are those it had when
\* backtest was called.
C11_TemplateIsReadOnly ==
    pc = "done" =>
        /\ cond.open_price = template.open_price
        /\ cond.profit_bound = template.profit_bound
        /\ cond.liquidate_bound = template.liquidate_bound

\* The record of the window at index k when that window is evaluated alone, with a
\* Condition constructed at the window's open price from the factors the caller
\* passed.
FreshRecord(k) ==
    LET w == Window(frame, template.period_days, k)
        fresh == Condition(w[1].open, template.period_days,
                           template.profit_below_price_factor,
                           template.profit_above_price_factor,
                           template.liquidate_below_price_factor,
                           template.liquidate_above_price_factor)
        r == get_outcome(w, fresh)
    IN NewRow(w, r[1], r[2])

\* The run in hand repeats the kept one: same series rows, same answers of
\* start_position.
SameBacktestAgain ==
    /\ previous # None
    /\ pc = "done"
    /\ frame = Val(previous).result.crypto_data
    /\ entered = Val(previous).entered

\* C12: the record of every entered window is the record of that window evaluated
\* alone with a fresh Condition at the window's open price, whatever the earlier
\* windows did and whatever open price the passed Condition carried; and a run
\* repeated with the same Condition object gives the same records.
C12_RecordsFromOwnOpenPrice ==
    /\ pc \in {"loop", "done"} =>
           \A k \in 1..Len(records) : entered[k] => records[k] = FreshRecord(k - 1)
    /\ SameBacktestAgain => records = Val(previous).result.outcomes

\* A repeated run of two entered windows that open at different prices, called
\* with a Condition whose open price is not the one the first call was given.
C12_Witness ==
    /\ SameBacktestAgain
    /\ entered = <<TRUE, TRUE>>
    /\ records[1].open_price # records[2].open_price
    /\ template.open_price # Val(previous).template.open_price
    /\ records[1].outcome # records[2].outcome

\* The rows of `outcomes` whose outcome is the given one.
RowsWith(outcomes, name) == {k \in 1..Len(outcomes) : outcomes[k].outcome = name}
NonSkipped(outcomes) == {k \in 1..Len(outcomes) : outcomes[k].outcome # SKIPPED}

\* The fraction p is count / total * 100.
IsPercentOf(p, count, total) == p.den # 0 /\ p.num * total = count * 100 * p.den

\* C13: total_positions is the number of records that are not Skipped; each
\* percentage is that outcome's count over total_positions times 100, and the three
\* counts add up to total_positions; with no position all three percentages are 0
\* and nothing was divided by zero.
C13_StatsOverNonSkipped ==
    stats # None =>
        LET outcomes == Val(result).outcomes
            st == Val(stats)
            total == Cardinality(NonSkipped(outcomes))
        IN /\ st.total_positions = total
           /\ Cardinality(RowsWith(outcomes, PROFITABLE))
                + Cardinality(RowsWith(outcomes, UNPROFITABLE))
                + Cardinality(RowsWith(outcomes, LIQUIDATED)) = total
           /\ st.percent_profitable.den # 0
           /\ st.percent_unprofitable.den # 0
           /\ st.percent_liquidated.den # 0
           /\ total > 0 =>
                 /\ IsPercentOf(st.percent_profitable,
                                Cardinality(RowsWith(outcomes, PROFITABLE)), total)
                 /\ IsPercentOf(st.percent_unprofitable,
                                Cardinality(RowsWith(outcomes, UNPROFITABLE)), total)
                 /\ IsPercentOf(st.percent_liquidated,
                                Cardinality(RowsWith(outcomes, LIQUIDATED)), total)
           /\ total = 0 =>
                 /\ st.percent_profitable.num = 0
                 /\ st.percent_unprofitable.num = 0
                 /\ st.percent_liquidated.num = 0

\* Statistics taken of records with a Skipped one among others.
C13_Witness ==
    /\ stats # None
    /\ RowsWith(Val(result).outcomes, SKIPPED) # {}
    /\ Val(stats).total_positions > 0
    /\ Val(stats).total_positions < Len(Val(result).outcomes)

\* The records whose [start_date, end_date] holds the date.
Covering(outcomes, date) ==
    {k \in 1..Len(outcomes) :
        outcomes[k].start_date <= date /\ date <= outcomes[k].end_date}
LastOf(S) == CHOOSE k \in S : \A j \in S : j <= k

\* C14: after prepare_data the label of a bar is the outcome of the last record, in
\* record order, whose interval holds the bar's date, and Skipped when no record
\* holds it.
C14_LastCoveringRecordLabels ==
    result # None =>
        LET res == Val(result)
        IN /\ Len(res.outcome) = Len(res.crypto_data)
           /\ \A n \in 1..Len(res.crypto_data) :
                 LET covering == Covering(res.outcomes, res.crypto_data[n].date)
                 IN res.outcome[n] =
                        IF covering = {} THEN SKIPPED
                        ELSE res.outcomes[LastOf(covering)].outcome

\* A bar that a Skipped record relabelled after a record that was not Skipped, and
\* a bar no record covers.
C14_Witness ==
    /\ result # None
    /\ \E n \in 1..Len(Val(result).crypto_data) :
          LET covering == Covering(Val(result).outcomes, Val(result).crypto_data[n].date)
          IN /\ Cardinality(covering) >= 2
             /\ Val(result).outcomes[LastOf(covering)].outcome = SKIPPED
             /\ \E k \in covering : Val(result).outcomes[k].outcome # SKIPPED
             /\ Val(result).outcome[n] = SKIPPED
    /\ \E n \in 1..Len(Val(result).crypto_data) :
          /\ Covering(Val(result).outcomes, Val(result).crypto_data[n].date) = {}
          /\ Val(result).outcome[n] = SKIPPED

\* The labelled series of a BackTestResult as rows with an 'outcome' column.
LabelledSeries(res) == [n \in 1..Len(res.outcome) |-> [outcome |-> res.outcome[n]]]

SameFraction(p, q) == p.num * q.den = q.num * p.den
SamePercentages(a, b) ==
    /\ SameFraction(a.percent_profitable, b.percent_profitable)
    /\ SameFraction(a.percent_unprofitable, b.percent_unprofitable)
    /\ SameFraction(a.percent_liquidated, b.percent_liquidated)

\* No two records' [start_date, end_date] intervals share a date.
DisjointIntervals(outcomes) ==
    \A j, k \in 1..Len(outcomes) :
        j # k => \/ outcomes[j].end_date < outcomes[k].start_date
                 \/ outcomes[k].end_date < outcomes[j].start_date

\* C15 as stated: for the records of any backtest, the percentages of the labelled
\* series' outcome column are the percentages return_outcome_stats gives on the
\* records.
C15_RoundTrip ==
    stats # None =>
        SamePercentages(return_outcome_stats(LabelledSeries(Val(result))), Val(stats))

\* C15 amended: the same, for a backtest whose records' intervals are pairwise
\* disjoint (period_days = 1, or a series of one bar).
C15_RoundTripWithoutOverlap ==
    stats # None /\ DisjointIntervals(Val(result).outcomes) =>
        SamePercentages(return_outcome_stats(LabelledSeries(Val(result))), Val(stats))

\* Statistics of a run of two windows that do not overlap, one entered and one
\* skipped.
C15_Witness ==
    /\ stats # None
    /\ DisjointIntervals(Val(result).outcomes)
    /\ Len(Val(result).outcomes) >= 2
    /\ Val(stats).total_positions > 0
    /\ \E k \in 1..Len(Val(result).outcomes) : Val(result).outcomes[k].outcome = SKIPPED

\* The run in hand was called with a start_from that no bar of the series reaches.
FilteredToNothing == pc # "idle" /\ ~frame_is_series /\ frame = <<>>

IsZeroPercent(p) == p.den # 0 /\ p.num = 0

\* C16: when the start_from filter leaves no bars the run does not fail and can
\* return, start_position is never called, there are no records, and the statistics
\* are total_positions 0 with the three percentages 0.
C16_EmptyFilterCompletes ==
    FilteredToNothing =>
        /\ pc # "error"
        /\ pc = "loop" => ENABLED Return
        /\ entered = <<>>
        /\ records = <<>>
        /\ pc = "done" => Val(result).outcomes = <<>>
        /\ stats # None =>
              /\ Val(stats).total_positions = 0
              /\ IsZeroPercent(Val(stats).percent_profitable)
              /\ IsZeroPercent(Val(stats).percent_unprofitable)
              /\ IsZeroPercent(Val(stats).percent_liquidated)

\* The statistics of a run whose start_from lies after the last bar of a series
\* that has bars.
C16_Witness ==
    /\ FilteredToNothing
    /\ series # <<>>
    /\ pc = "done"
    /\ stats # None

\* The outcome column of the series a kept BackTestResult holds, as it is now: the
\* stored series' own column when the result holds the stored series itself.
HeldLabels(kept) ==
    IF kept.is_series THEN Val(series_outcome) ELSE kept.result.outcome

\* C17: once a second call on the same BackTester and asset is over, the labelled
\* series of the first call's BackTestResult is what it was when that call
\* returned, and no call has changed the BackTester's stored series.
C17_SuccessiveResultsIndependent ==
    /\ previous # None /\ pc = "done" =>
           HeldLabels(Val(previous)) = Val(previous).result.outcome
    /\ series_outcome = None

====
